---- MODULE Spec2Model ----
(***************************************************************************)
(* The two markdownlint rules of the repository:                           *)
(*   skill-length      (tools/markdownlint-skill-length.cjs)               *)
(*   skill-frontmatter (the SKILL002 rule)                                 *)
(* A host linter loads one document (params), runs each rule once on it,   *)
(* and collects what the rule hands to onError.  Strings are TLA+ strings; *)
(* a character is a string of length one, read with At.                    *)
(***************************************************************************)
EXTENDS Integers, Sequences, FiniteSets, TLC

VARIABLES loaded, params, ran, lengthErrors, frontmatterErrors

vars == <<loaded, params, ran, lengthErrors, frontmatterErrors>>

(***************************************************************************)
(* Program constants                                                       *)
(***************************************************************************)
MAX_LINES == 500
MAX_WORDS == 8000
WARNING_LINES == 300
WARNING_WORDS == 5000
NAME_MAX_LENGTH == 64
DESCRIPTION_MIN_LENGTH == 20
DESCRIPTION_MAX_LENGTH == 1024

(***************************************************************************)
(* Bounds of the model                                                     *)
(***************************************************************************)
\* line, word and character counts are taken this far on each side of a limit
Slack == 1

(***************************************************************************)
(* String primitives                                                       *)
(***************************************************************************)
At(s, i) == SubSeq(s, i, i)

\* the characters of \s that the documents of the model contain
Whitespace == {" ", "\t", "\n", "\r"}

\* the characters that "." does not match and before which "$" (flag m) holds
LineTerminators == {"\n", "\r"}

IsWs(s, i) == i >= 1 /\ i <= Len(s) /\ At(s, i) \in Whitespace

StartsWithAt(s, i, t) == i >= 1 /\ i + Len(t) - 1 <= Len(s) /\ SubSeq(s, i, i + Len(t) - 1) = t

\* String.prototype.endsWith
EndsWith(s, t) == Len(s) >= Len(t) /\ SubSeq(s, Len(s) - Len(t) + 1, Len(s)) = t

RECURSIVE SkipWs(_, _)
\* index of the first character at or after i that is not whitespace (Len+1 if none)
SkipWs(s, i) == IF IsWs(s, i) THEN SkipWs(s, i + 1) ELSE i

RECURSIVE SkipWsBack(_, _)
\* index of the last character at or before i that is not whitespace (0 if none)
SkipWsBack(s, i) == IF IsWs(s, i) THEN SkipWsBack(s, i - 1) ELSE i

\* String.prototype.trim
Trim(s) == SubSeq(s, SkipWs(s, 1), SkipWsBack(s, Len(s)))

RECURSIVE Join(_, _)
\* Array.prototype.join: the lines with sep between each two, built by halves
Join(lines, sep) ==
  IF Len(lines) = 0 THEN ""
  ELSE IF Len(lines) = 1 THEN lines[1]
  ELSE LET h == Len(lines) \div 2
       IN Join(SubSeq(lines, 1, h), sep) \o sep \o Join(SubSeq(lines, h + 1, Len(lines)), sep)

\* params.frontMatterLines || []
FrontMatterLines(p) == IF "frontMatterLines" \in DOMAIN p THEN p.frontMatterLines ELSE <<>>

\* a gate that lets every Markdown file through
IsSkillFileAnyMarkdown(p) == EndsWith(p.name, ".md")

\* !params.name.endsWith("SKILL.md") is the early return of both rules
IsSkillFile(p) == EndsWith(p.name, "SKILL.md")

(***************************************************************************)
(* skill-length                                                            *)
(***************************************************************************)
TotalLines(p) == Len(FrontMatterLines(p)) + Len(p.lines)

\* content.split(/\s+/).filter(Boolean).length: the pieces between whitespace
\* runs that are not empty, counted by the position where each one starts
WordCount(p) ==
  LET content == Join(p.lines, "\n")
  IN Cardinality({i \in 1..Len(content) : ~IsWs(content, i) /\ (i = 1 \/ IsWs(content, i - 1))})

\* the hard limit compared with >= in place of >
ExceedsMaxLinesInclusive(totalLines) == totalLines >= MAX_LINES

\* totalLines > MAX_LINES
ExceedsMaxLines(totalLines) == totalLines > MAX_LINES

\* the recommended number of lines taken from the limit on words
ExceedsWarningLinesWordLimit(totalLines) == totalLines > WARNING_WORDS

\* totalLines > WARNING_LINES
ExceedsWarningLines(totalLines) == totalLines > WARNING_LINES

LineCountErrors(totalLines) ==
  IF ExceedsMaxLines(totalLines) THEN
    <<[lineNumber |-> 1,
       detail |-> "Line count: " \o ToString(totalLines) \o " (max: " \o ToString(MAX_LINES)
                  \o "). Move detailed content to references/ subdirectory.",
       context |-> ToString(totalLines) \o " lines"]>>
  ELSE IF ExceedsWarningLines(totalLines) THEN
    <<[lineNumber |-> 1,
       detail |-> "Line count: " \o ToString(totalLines) \o " (recommended: <" \o ToString(WARNING_LINES)
                  \o "). Consider moving content to references/.",
       context |-> ToString(totalLines) \o " lines (warning)"]>>
  ELSE <<>>

WordCountErrors(wordCount) ==
  IF wordCount > MAX_WORDS THEN
    <<[lineNumber |-> 1,
       detail |-> "Word count: " \o ToString(wordCount) \o " (max: " \o ToString(MAX_WORDS)
                  \o "). Move detailed content to references/ subdirectory.",
       context |-> ToString(wordCount) \o " words"]>>
  ELSE IF wordCount > WARNING_WORDS THEN
    <<[lineNumber |-> 1,
       detail |-> "Word count: " \o ToString(wordCount) \o " (recommended: <" \o ToString(WARNING_WORDS)
                  \o "). Consider moving content to references/.",
       context |-> ToString(wordCount) \o " words (warning)"]>>
  ELSE <<>>

\* the sequence of onError calls of one run of the rule
SkillLengthErrors(p) ==
  IF ~IsSkillFile(p) THEN <<>>
  ELSE LineCountErrors(TotalLines(p)) \o WordCountErrors(WordCount(p))

(***************************************************************************)
(* skill-frontmatter: the regular expressions                              *)
(***************************************************************************)
LowerLetters == {At("abcdefghijklmnopqrstuvwxyz", i) : i \in 1..26}

UpperLetters == {At("ABCDEFGHIJKLMNOPQRSTUVWXYZ", i) : i \in 1..26}

Digits == {At("0123456789", i) : i \in 1..10}

\* the characters of \w, between which and any other character \b holds
WordChars == LowerLetters \cup UpperLetters \cup Digits \cup {"_"}

Quotes == {"\"", "'"}

SetMin(S) == CHOOSE x \in S : \A y \in S : x <= y

SetMax(S) == CHOOSE x \in S : \A y \in S : y <= x

\* "^" under flag m: the start of the text or the position after a line terminator
IsLineStart(s, i) == i = 1 \/ (i >= 2 /\ i <= Len(s) + 1 /\ At(s, i - 1) \in LineTerminators)

\* "$" under flag m: the end of the text or the position before a line terminator
IsLineEnd(s, i) == i = Len(s) + 1 \/ (i >= 1 /\ i <= Len(s) /\ At(s, i) \in LineTerminators)

\* where a greedy ".+" that starts at i stops: the first "$" from i on
SkipToLineEnd(s, i) == SetMin({e \in i..(Len(s) + 1) : IsLineEnd(s, e)})

\* /^<key>\s*(.+)$/m tried at position p: the positions where the group can
\* start.  \s* takes whitespace (line terminators included) from the end of
\* the key, the group needs one character that is not a line terminator.
KeyValueGroupStarts(s, key, p) ==
  IF ~(IsLineStart(s, p) /\ StartsWithAt(s, p, key)) THEN {}
  ELSE {g \in (p + Len(key))..SkipWs(s, p + Len(key)) : g <= Len(s) /\ At(s, g) \notin LineTerminators}

\* String.prototype.match with /^<key>\s*(.+)$/m: the leftmost position that
\* matches, \s* as long as it can be, the group up to the end of its line
MatchKeyValue(s, key) ==
  LET ps == {p \in 1..Len(s) : KeyValueGroupStarts(s, key, p) # {}}
  IN IF ps = {} THEN [found |-> FALSE, group |-> ""]
     ELSE LET g == SetMax(KeyValueGroupStarts(s, key, SetMin(ps)))
          IN [found |-> TRUE, group |-> SubSeq(s, g, SkipToLineEnd(s, g) - 1)]

\* [a-z-]+: tried at position i
IsKeyAt(s, i) ==
  \E j \in (i + 1)..Len(s) :
     /\ At(s, j) = ":"
     /\ \A k \in i..(j - 1) : At(s, k) \in LowerLetters \cup {"-"}

\* the lookahead (?=\n[a-z-]+:|$) under flag m, tried at position i
BlockEndLookahead(s, i) ==
  \/ (i <= Len(s) /\ At(s, i) = "\n" /\ IsKeyAt(s, i + 1))
  \/ IsLineEnd(s, i)

\* /^description:\s*>\s*\n([\s\S]*?)(?=\n[a-z-]+:|$)/m tried at position p: the
\* positions where the group can start, one after each \n of the whitespace
\* that follows ">"
BlockGroupStarts(s, p) ==
  LET key == "description:"
      gt == SkipWs(s, p + Len(key))
  IN IF ~(IsLineStart(s, p) /\ StartsWithAt(s, p, key) /\ StartsWithAt(s, gt, ">")) THEN {}
     ELSE {n + 1 : n \in {m \in (gt + 1)..(SkipWs(s, gt + 1) - 1) : At(s, m) = "\n"}}

\* String.prototype.match with the block-scalar expression: leftmost match,
\* the second \s* as long as it can be, the lazy group as short as it can be
MatchBlockScalar(s) ==
  LET ps == {p \in 1..Len(s) : BlockGroupStarts(s, p) # {}}
  IN IF ps = {} THEN [found |-> FALSE, group |-> ""]
     ELSE LET g == SetMax(BlockGroupStarts(s, SetMin(ps)))
              e == SetMin({i \in g..(Len(s) + 1) : BlockEndLookahead(s, i)})
          IN [found |-> TRUE, group |-> SubSeq(s, g, e - 1)]

\* .replace(/^["']|["']$/g, ""): one quote at the start and one at the end
StripQuotes(s) ==
  LET a == IF Len(s) >= 1 /\ At(s, 1) \in Quotes THEN 2 ELSE 1
      b == IF Len(s) >= a /\ At(s, Len(s)) \in Quotes THEN Len(s) - 1 ELSE Len(s)
  IN SubSeq(s, a, b)

RECURSIVE ReplaceNewlineRuns(_, _)
\* .replace(/\n\s*/g, " ") from position i on
ReplaceNewlineRuns(s, i) ==
  IF i > Len(s) THEN ""
  ELSE IF At(s, i) = "\n" THEN " " \o ReplaceNewlineRuns(s, SkipWs(s, i + 1))
  ELSE At(s, i) \o ReplaceNewlineRuns(s, i + 1)

\* /^[a-z][a-z0-9-]*$/.test(name)
IsKebabCase(name) ==
  /\ Len(name) >= 1
  /\ At(name, 1) \in LowerLetters
  /\ \A i \in 2..Len(name) : At(name, i) \in LowerLetters \cup Digits \cup {"-"}

ToLowerChar(c) ==
  IF c \in UpperLetters
  THEN At("abcdefghijklmnopqrstuvwxyz", CHOOSE i \in 1..26 : At("ABCDEFGHIJKLMNOPQRSTUVWXYZ", i) = c)
  ELSE c

RECURSIVE ToLower(_)
\* the text with each letter in lower case (what flag i compares), built by halves
ToLower(s) ==
  IF Len(s) = 0 THEN ""
  ELSE IF Len(s) = 1 THEN ToLowerChar(s)
  ELSE ToLower(SubSeq(s, 1, Len(s) \div 2)) \o ToLower(SubSeq(s, (Len(s) \div 2) + 1, Len(s)))

ReservedWords == {"anthropic", "claude"}

\* \b next to a word character: the neighbour at i is not a word character
IsNotWordCharAt(s, i) == i < 1 \/ i > Len(s) \/ At(s, i) \notin WordChars

\* the expression without its flag i
HasReservedWordCaseSensitive(name) ==
  \E w \in ReservedWords : \E i \in 1..Len(name) :
     /\ i + Len(w) - 1 <= Len(name)
     /\ SubSeq(name, i, i + Len(w) - 1) = w
     /\ IsNotWordCharAt(name, i - 1)
     /\ IsNotWordCharAt(name, i + Len(w))

\* /\b(anthropic|claude)\b/i.test(name)
HasReservedWord(name) ==
  \E w \in ReservedWords : \E i \in 1..Len(name) :
     /\ i + Len(w) - 1 <= Len(name)
     /\ ToLower(SubSeq(name, i, i + Len(w) - 1)) = w
     /\ IsNotWordCharAt(name, i - 1)
     /\ IsNotWordCharAt(name, i + Len(w))

\* /--/.test(name)
HasConsecutiveHyphens(name) == \E i \in 1..Len(name) : StartsWithAt(name, i, "--")

\* /<[^>]+>/.test(s)
HasXmlTag(s) ==
  \E i \in 1..Len(s) :
     /\ At(s, i) = "<"
     /\ \E j \in (i + 2)..Len(s) :
           /\ At(s, j) = ">"
           /\ \A k \in (i + 1)..(j - 1) : At(s, k) # ">"

\* path.dirname (posix)
Dirname(path) ==
  LET nonSlash == {j \in 2..Len(path) : At(path, j) # "/"}
      slashes == IF nonSlash = {} THEN {}
                 ELSE {i \in 2..(SetMax(nonSlash) - 1) : At(path, i) = "/"}
      hasRoot == StartsWithAt(path, 1, "/")
  IN IF Len(path) = 0 THEN "."
     ELSE IF slashes = {} THEN (IF hasRoot THEN "/" ELSE ".")
     ELSE IF hasRoot /\ SetMax(slashes) = 2 THEN "//"
     ELSE SubSeq(path, 1, SetMax(slashes) - 1)

\* path.basename (posix, no suffix)
Basename(path) ==
  LET nonSlash == {j \in 1..Len(path) : At(path, j) # "/"}
      slashes == IF nonSlash = {} THEN {}
                 ELSE {i \in 1..(SetMax(nonSlash) - 1) : At(path, i) = "/"}
  IN IF nonSlash = {} THEN ""
     ELSE SubSeq(path, IF slashes = {} THEN 1 ELSE SetMax(slashes) + 1, SetMax(nonSlash))

(***************************************************************************)
(* skill-frontmatter: the rule                                             *)
(***************************************************************************)
Error(lineNumber, detail, context) ==
  [lineNumber |-> lineNumber, detail |-> detail, context |-> context]

\* frontMatterLines.filter((line) => line !== "---").join("\n")
Frontmatter(p) == Join(SelectSeq(FrontMatterLines(p), LAMBDA line : line # "---"), "\n")

\* frontmatter.match(/^name:\s*(.+)$/m)
NameMatch(frontmatter) == MatchKeyValue(frontmatter, "name:")

\* nameMatch[1].trim().replace(/^["']|["']$/g, "")
Name(frontmatter) == StripQuotes(Trim(NameMatch(frontmatter).group))

\* path.basename(path.dirname(params.name))
DirName(p) == Basename(Dirname(p.name))

KebabCaseErrors(name) ==
  IF ~IsKebabCase(name)
  THEN <<Error(2, "Skill name must be kebab-case: \"" \o name \o "\"", "Invalid name format")>>
  ELSE <<>>

NameLengthErrors(name) ==
  IF Len(name) > NAME_MAX_LENGTH
  THEN <<Error(2, "Skill name exceeds 64 characters (current: " \o ToString(Len(name)) \o ")",
               "Name too long")>>
  ELSE <<>>

ReservedWordErrors(name) ==
  IF HasReservedWord(name)
  THEN <<Error(2, "Skill name cannot contain reserved words \"anthropic\" or \"claude\": \""
                  \o name \o "\"", "Reserved word in name")>>
  ELSE <<>>

ConsecutiveHyphenErrors(name) ==
  IF HasConsecutiveHyphens(name)
  THEN <<Error(2, "Skill name cannot contain consecutive hyphens: \"" \o name \o "\"",
               "Consecutive hyphens")>>
  ELSE <<>>

NameXmlTagErrors(name) ==
  IF HasXmlTag(name)
  THEN <<Error(2, "Skill name cannot contain XML tags: \"" \o name \o "\"", "XML tag in name")>>
  ELSE <<>>

DirectoryErrors(name, dirName) ==
  IF name # dirName
  THEN <<Error(2, "Skill name \"" \o name \o "\" must match directory name \"" \o dirName \o "\"",
               "Name/directory mismatch")>>
  ELSE <<>>

\* the six tests chained with else: only the first failure is reported
NameErrorsFirstFailure(name, dirName) ==
  IF KebabCaseErrors(name) # <<>> THEN KebabCaseErrors(name)
  ELSE IF NameLengthErrors(name) # <<>> THEN NameLengthErrors(name)
  ELSE IF ReservedWordErrors(name) # <<>> THEN ReservedWordErrors(name)
  ELSE IF ConsecutiveHyphenErrors(name) # <<>> THEN ConsecutiveHyphenErrors(name)
  ELSE IF NameXmlTagErrors(name) # <<>> THEN NameXmlTagErrors(name)
  ELSE DirectoryErrors(name, dirName)

\* the else branch of "if (!nameMatch)": six tests, one after the other
NameErrors(name, dirName) ==
  KebabCaseErrors(name) \o NameLengthErrors(name) \o ReservedWordErrors(name)
    \o ConsecutiveHyphenErrors(name) \o NameXmlTagErrors(name) \o DirectoryErrors(name, dirName)

NameFieldErrors(frontmatter, dirName) ==
  IF ~NameMatch(frontmatter).found
  THEN <<Error(2, "Frontmatter must include \"name\" field", "Missing name")>>
  ELSE NameErrors(Name(frontmatter), dirName)

\* frontmatter.match(/^description:\s*(.+)$/m)
DescMatch(frontmatter) == MatchKeyValue(frontmatter, "description:")

\* frontmatter.match(/^description:\s*>\s*\n([\s\S]*?)(?=\n[a-z-]+:|$)/m)
DescMultilineMatch(frontmatter) == MatchBlockScalar(frontmatter)

\* the value of the local variable description after the if / else if
Description(frontmatter) ==
  IF DescMultilineMatch(frontmatter).found
  THEN Trim(ReplaceNewlineRuns(DescMultilineMatch(frontmatter).group, 1))
  ELSE IF DescMatch(frontmatter).found
  THEN StripQuotes(Trim(DescMatch(frontmatter).group))
  ELSE ""

\* the lower limit compared with <= in place of <
IsTooShortInclusive(description) == Len(description) <= DESCRIPTION_MIN_LENGTH

\* description.length < 20
IsTooShort(description) == Len(description) < DESCRIPTION_MIN_LENGTH

DescriptionErrors(description) ==
  (IF IsTooShort(description)
   THEN <<Error(2, "Description should be at least 20 characters (current: "
                   \o ToString(Len(description)) \o ")", "Description too short")>>
   ELSE <<>>)
  \o (IF Len(description) > DESCRIPTION_MAX_LENGTH
      THEN <<Error(2, "Description exceeds 1024 characters (current: "
                      \o ToString(Len(description)) \o ")", "Description too long")>>
      ELSE <<>>)
  \o (IF HasXmlTag(description)
      THEN <<Error(2, "Description cannot contain XML tags", "XML tag in description")>>
      ELSE <<>>)

DescriptionFieldErrors(frontmatter) ==
  IF ~DescMatch(frontmatter).found /\ ~DescMultilineMatch(frontmatter).found
  THEN <<Error(2, "Frontmatter must include \"description\" field", "Missing description")>>
  ELSE DescriptionErrors(Description(frontmatter))

MissingFrontmatterErrors ==
  <<Error(1, "SKILL.md must have YAML frontmatter (---)", "Missing frontmatter")>>

\* the rule without the return that follows "Missing frontmatter"
SkillFrontmatterErrorsNoReturn(p) ==
  IF ~IsSkillFile(p) THEN <<>>
  ELSE (IF Len(FrontMatterLines(p)) = 0 THEN MissingFrontmatterErrors ELSE <<>>)
       \o NameFieldErrors(Frontmatter(p), DirName(p)) \o DescriptionFieldErrors(Frontmatter(p))

\* the sequence of onError calls of one run of the rule
SkillFrontmatterErrors(p) ==
  IF ~IsSkillFile(p) THEN <<>>
  ELSE IF Len(FrontMatterLines(p)) = 0 THEN MissingFrontmatterErrors
  ELSE NameFieldErrors(Frontmatter(p), DirName(p)) \o DescriptionFieldErrors(Frontmatter(p))

(***************************************************************************)
(* The documents the host hands to the rules                               *)
(***************************************************************************)
RECURSIVE Rep(_, _)
\* n copies of s
Rep(s, n) ==
  IF n <= 0 THEN ""
  ELSE LET h == Rep(s, n \div 2) IN IF n % 2 = 0 THEN h \o h ELSE h \o h \o s

Around(limit) == (limit - Slack)..(limit + Slack)

SkillPath == "skills/my-skill/SKILL.md"

OtherPaths ==
  {"SKILL.md", "/SKILL.md", "skills/ab--cd<x>/SKILL.md", "skills/claude-helper/SKILL.md",
   "skills/my-skill/MYSKILL.md"}

UncheckedPaths == {"README.md", "skills/my-skill/README.md", "docs/SKILL.md.txt", "skills/my-skill/skill.md"}

\* the lines of a name field, none when the field is left out
NameFields ==
  {<<>>, <<"name:">>, <<"name:   ">>, <<"name: my-skill">>, <<"name:my-skill">>,
   <<"name: \"my-skill\"">>, <<"name:   'my-skill'  ">>, <<"name: other-skill">>,
   <<"name: ab--cd<x>">>, <<"name: claude-helper">>, <<"name: Claude-helper">>,
   <<"name: my-ANTHROPIC">>, <<"name: claudette">>, <<"name: my_claude">>,
   <<"name: My Skill">>, <<"name: the claude skill">>, <<"name: x">>}
  \cup {<<"name: " \o Rep("a", n)>> : n \in Around(NAME_MAX_LENGTH)}

\* the lines of a description field, none when the field is left out
DescriptionFields ==
  {<<>>, <<"description:">>,
   <<"description: Use <b>bold</b> words when you describe it">>,
   <<"description: >", "  line one", "  line two">>,
   <<"description: >", "  Analyze the tables", "  for cost optimization.">>,
   <<"description: >", "  Analyze the tables for cost optimization.", "  Triggers on: cost.">>,
   <<"description: >">>}
  \cup {<<"description: " \o Rep("d", n)>> : n \in Around(DESCRIPTION_MIN_LENGTH)}
  \cup {<<"description: \"" \o Rep("d", n) \o "\"">> : n \in Around(DESCRIPTION_MIN_LENGTH)}
  \cup {<<"description: " \o Rep("d", n)>> : n \in Around(DESCRIPTION_MAX_LENGTH)}

FrontMatters ==
  {<<"---">> \o n \o d \o <<"---">> : n \in NameFields, d \in DescriptionFields}
  \cup {<<"---">> \o d \o n \o <<"---">> : n \in NameFields, d \in DescriptionFields}

GoodFrontMatter ==
  <<"---", "name: my-skill", "description: Analyze tables for cost optimization.", "---">>

\* the frontmatter of the skill document of the repository
RepositoryFrontMatter ==
  <<"---",
    "name: optimize-dynamodb",
    "description: \"Analyze DynamoDB tables for cost optimization opportunities. Triggers on: optimize DynamoDB, DynamoDB cost analysis, reduce DynamoDB costs, DynamoDB capacity mode, on-demand vs provisioned, table class analysis, unused GSI, DynamoDB utilization, right-size DynamoDB.\"",
    "license: Apache-2.0",
    "dependencies: python>=3.9, boto3",
    "metadata:",
    "  tags: aws, dynamodb, cost-optimization, capacity, provisioned, on-demand, table-class, utilization, gsi",
    "---">>

ShortBody == <<"# Title", "", "Run the script and show its output.">>

Body(n, line) == [i \in 1..n |-> line]

\* documents that differ in their frontmatter
FieldDocuments ==
  {[name |-> SkillPath, lines |-> ShortBody, frontMatterLines |-> f] : f \in FrontMatters}
  \cup {[name |-> q, lines |-> ShortBody, frontMatterLines |-> <<"---">> \o n \o d \o <<"---">>] :
          q \in OtherPaths,
          n \in {<<"name: my-skill">>, <<"name: ab--cd<x>">>, <<"name: claude-helper">>},
          d \in {<<"description: Analyze tables for cost optimization.">>}}

\* the skill document of the repository, in its directory and in another one
RepositoryDocuments ==
  {[name |-> q, lines |-> b, frontMatterLines |-> RepositoryFrontMatter] :
     q \in {"skills/optimize-dynamodb/SKILL.md", "skills/my-skill/SKILL.md"},
     b \in {ShortBody, Body(98, "Run the script and show its output.")}}

\* documents without frontmatter: the property is not there, or is empty
BareDocuments ==
  {[name |-> q, lines |-> b] :
     q \in {SkillPath, "SKILL.md"}, b \in {<<>>, ShortBody}}
  \cup {[name |-> q, lines |-> b, frontMatterLines |-> <<>>] :
     q \in {SkillPath, "SKILL.md"}, b \in {<<>>, ShortBody}}

\* documents that differ in their number of lines
LineDocuments ==
  {[name |-> SkillPath, lines |-> Body(n - Len(GoodFrontMatter), "Some text."),
    frontMatterLines |-> GoodFrontMatter] : n \in Around(WARNING_LINES) \cup Around(MAX_LINES)}
  \cup {[name |-> SkillPath, lines |-> Body(n, "")] : n \in Around(WARNING_LINES) \cup Around(MAX_LINES)}
  \cup {[name |-> SkillPath, lines |-> Body(n, "Some text."), frontMatterLines |-> <<>>] :
          n \in Around(MAX_LINES)}

\* documents that differ in their number of words: 100 lines and one more
WordDocuments ==
  {[name |-> SkillPath,
    lines |-> Body(100, Rep("w ", (limit \div 100) + k)) \o <<Rep(" w\t", d)>>,
    frontMatterLines |-> GoodFrontMatter] :
      limit \in {WARNING_WORDS, MAX_WORDS}, k \in {-1, 0}, d \in 0..Slack}
  \cup {[name |-> SkillPath,
         lines |-> Body(MAX_LINES + d, Rep("w ", 1 + (MAX_WORDS \div MAX_LINES))),
         frontMatterLines |-> GoodFrontMatter] : d \in 0..Slack}

\* documents whose name does not end with SKILL.md
UncheckedDocuments ==
  {[name |-> q, lines |-> b, frontMatterLines |-> f] :
     q \in UncheckedPaths,
     b \in {ShortBody, Body(MAX_LINES + 1, Rep("w ", 1 + (MAX_WORDS \div MAX_LINES)))},
     f \in {<<>>, GoodFrontMatter, <<"---", "name: ab--cd<x>", "description: <b>", "---">>}}
  \cup {[name |-> q, lines |-> Body(MAX_LINES + 1, "Some text.")] : q \in UncheckedPaths}

Documents ==
  FieldDocuments \cup RepositoryDocuments \cup BareDocuments \cup LineDocuments \cup WordDocuments \cup UncheckedDocuments

(***************************************************************************)
(* The host: load a document, run each rule once, report                   *)
(***************************************************************************)
Rules == {"skill-length", "skill-frontmatter"}

NoParams == [name |-> "", lines |-> <<>>]

Init ==
  /\ loaded = FALSE
  /\ params = NoParams
  /\ ran = {}
  /\ lengthErrors = <<>>
  /\ frontmatterErrors = <<>>

\* the host parses a document and is about to run the rules on it
Lint(doc) ==
  /\ ~loaded
  /\ loaded' = TRUE
  /\ params' = doc
  /\ ran' = {}
  /\ lengthErrors' = <<>>
  /\ frontmatterErrors' = <<>>

\* one call of skillLength(params, onError)
SkillLength ==
  /\ loaded
  /\ "skill-length" \notin ran
  /\ lengthErrors' = SkillLengthErrors(params)
  /\ ran' = ran \cup {"skill-length"}
  /\ UNCHANGED <<loaded, params, frontmatterErrors>>

\* one call of skillFrontmatter(params, onError)
SkillFrontmatter ==
  /\ loaded
  /\ "skill-frontmatter" \notin ran
  /\ frontmatterErrors' = SkillFrontmatterErrors(params)
  /\ ran' = ran \cup {"skill-frontmatter"}
  /\ UNCHANGED <<loaded, params, lengthErrors>>

\* the host has the results of both rules and drops the document
Report ==
  /\ loaded
  /\ ran = Rules
  /\ loaded' = FALSE
  /\ params' = NoParams
  /\ ran' = {}
  /\ lengthErrors' = <<>>
  /\ frontmatterErrors' = <<>>

Next ==
  \/ \E doc \in Documents : Lint(doc)
  \/ SkillLength
  \/ SkillFrontmatter
  \/ Report

Spec == Init /\ [][Next]_vars

(***************************************************************************)
(* Vocabulary of the properties                                            *)
(***************************************************************************)
Contexts(errors) == {errors[i].context : i \in DOMAIN errors}

CountContext(errors, c) == Cardinality({i \in DOMAIN errors : errors[i].context = c})

\* the loaded document passes the file name gate
Checked == loaded /\ EndsWith(params.name, "SKILL.md")

LengthDone == Checked /\ "skill-length" \in ran

FrontmatterDone == Checked /\ "skill-frontmatter" \in ran

HasFrontmatterBlock == "frontMatterLines" \in DOMAIN params /\ params.frontMatterLines # <<>>

\* the severity of a diagnostic is carried by its context label
IsWarning(d) == EndsWith(d.context, "(warning)")

IsLineCount(d) == StartsWithAt(d.detail, 1, "Line count: ")

IsWordCount(d) == StartsWithAt(d.detail, 1, "Word count: ")

LineCountDiagnostics == {i \in DOMAIN lengthErrors : IsLineCount(lengthErrors[i])}

NameFormatContexts ==
  {"Invalid name format", "Name too long", "Reserved word in name", "Consecutive hyphens",
   "XML tag in name", "Name/directory mismatch"}

\* the lines of the frontmatter block between its delimiters
FieldLines(p) == SelectSeq(FrontMatterLines(p), LAMBDA line : line # "---")

\* the value written after key on a line that starts with key
ValueAfter(line, key) == Trim(SubSeq(line, Len(key) + 1, Len(line)))

\* a line "<key> <value>" with a value that is not empty
IsFieldLine(line, key) == StartsWithAt(line, 1, key) /\ ValueAfter(line, key) # ""

HasNameLine(lines) == \E i \in DOMAIN lines : IsFieldLine(lines[i], "name:")

\* the name a document declares: the value of its first name line
DeclaredName(lines) ==
  StripQuotes(ValueAfter(lines[SetMin({i \in DOMAIN lines : IsFieldLine(lines[i], "name:")})], "name:"))

\* the lines "description: >" of a frontmatter
BlockScalarLines(lines) ==
  {i \in DOMAIN lines : StartsWithAt(lines[i], 1, "description:") /\ ValueAfter(lines[i], "description:") = ">"}

\* the lines that continue the block scalar: up to the next top-level key or the end
ContinuationLines(lines) ==
  LET k == SetMin(BlockScalarLines(lines))
      m == SetMin({i \in (k + 1)..Len(lines) : IsKeyAt(lines[i], 1)} \cup {Len(lines) + 1})
  IN SubSeq(lines, k + 1, m - 1)

\* a description in block-scalar form with indented continuation lines
HasBlockScalarDescription(lines) ==
  /\ BlockScalarLines(lines) # {}
  /\ ContinuationLines(lines) # <<>>
  /\ \A i \in DOMAIN ContinuationLines(lines) :
        StartsWithAt(ContinuationLines(lines)[i], 1, " ") /\ Trim(ContinuationLines(lines)[i]) # ""

\* the continuation lines joined with single spaces and trimmed
FoldedDescription(lines) ==
  Trim(Join([i \in DOMAIN ContinuationLines(lines) |-> Trim(ContinuationLines(lines)[i])], " "))

HasDescriptionLine(lines) ==
  \E i \in DOMAIN lines : IsFieldLine(lines[i], "description:") /\ i \notin BlockScalarLines(lines)

\* the description a document declares, in either of its two forms
DeclaredDescription(lines) ==
  IF HasBlockScalarDescription(lines) THEN FoldedDescription(lines)
  ELSE StripQuotes(ValueAfter(
         lines[SetMin({i \in DOMAIN lines : IsFieldLine(lines[i], "description:")})], "description:"))

\* a document that satisfies every constraint of the two rules
IsWellFormed(p) ==
  /\ HasNameLine(FieldLines(p))
  /\ IsKebabCase(DeclaredName(FieldLines(p)))
  /\ Len(DeclaredName(FieldLines(p))) <= 64
  /\ ~HasReservedWord(DeclaredName(FieldLines(p)))
  /\ ~HasConsecutiveHyphens(DeclaredName(FieldLines(p)))
  /\ ~HasXmlTag(DeclaredName(FieldLines(p)))
  /\ DeclaredName(FieldLines(p)) = DirName(p)
  /\ (HasBlockScalarDescription(FieldLines(p)) \/ HasDescriptionLine(FieldLines(p)))
  /\ Len(DeclaredDescription(FieldLines(p))) >= 20
  /\ Len(DeclaredDescription(FieldLines(p))) <= 1024
  /\ ~HasXmlTag(DeclaredDescription(FieldLines(p)))
  /\ TotalLines(p) < 300
  /\ WordCount(p) < 5000

\* a character that separates words: a hyphen or anything else that is not a
\* letter, a digit or an underscore
IsSeparatorAt(name, i) ==
  At(name, i) = "-" \/ At(name, i) \notin LowerLetters \cup UpperLetters \cup Digits \cup {"_"}

\* the whole words of a name: its parts between separators
WordTokens(name) ==
  {SubSeq(name, i, SetMin({j \in i..Len(name) : j = Len(name) \/ IsSeparatorAt(name, j + 1)})) :
     i \in {k \in 1..Len(name) : ~IsSeparatorAt(name, k) /\ (k = 1 \/ IsSeparatorAt(name, k - 1))}}

HasReservedToken(name) == \E t \in WordTokens(name) : ToLower(t) \in {"anthropic", "claude"}

NamePresent == HasFrontmatterBlock /\ NameMatch(Frontmatter(params)).found

DescriptionPresent ==
  /\ HasFrontmatterBlock
  /\ (DescMatch(Frontmatter(params)).found \/ DescMultilineMatch(Frontmatter(params)).found)

(***************************************************************************)
(* Properties                                                              *)
(***************************************************************************)

\* C1: a document whose name does not end with "SKILL.md" gets no diagnostic
\* from either rule, whatever its body and frontmatter are.
C1_UncheckedNoDiagnostics ==
  (loaded /\ ~EndsWith(params.name, "SKILL.md")) => (lengthErrors = <<>> /\ frontmatterErrors = <<>>)

\* both rules have run on an unchecked document that is too long and has a bad frontmatter
C1_Witness ==
  /\ loaded /\ ran = Rules /\ ~EndsWith(params.name, "SKILL.md")
  /\ Len(params.lines) > MAX_LINES
  /\ HasFrontmatterBlock /\ HasXmlTag(Frontmatter(params))

\* C2: length rule, checked document: at totalLines = 500 there is no
\* line-count error; at totalLines = 501 there is exactly one, and its message
\* names the count and the hard limit (the comparison is strictly greater).
C2_HardLineLimitIsStrict ==
  LengthDone =>
    /\ TotalLines(params) = 500 =>
         \A i \in LineCountDiagnostics : IsWarning(lengthErrors[i])
    /\ TotalLines(params) = 501 =>
         /\ Cardinality(LineCountDiagnostics) = 1
         /\ \A i \in LineCountDiagnostics :
              /\ ~IsWarning(lengthErrors[i])
              /\ lengthErrors[i].detail =
                   "Line count: 501 (max: 500). Move detailed content to references/ subdirectory."

\* the length rule has run on a document of 501 lines and reported an error
C2_Witness ==
  /\ LengthDone /\ TotalLines(params) = 501
  /\ \E i \in LineCountDiagnostics : ~IsWarning(lengthErrors[i])

\* C3: length rule, checked document with 300 < totalLines <= 500: exactly one
\* line-count diagnostic, a warning; and a diagnostic of either rule is a
\* warning exactly when it is one of the two size recommendations.
C3_SoftLimitsAreTheOnlyWarnings ==
  /\ (LengthDone /\ TotalLines(params) > 300 /\ TotalLines(params) <= 500) =>
       /\ Cardinality(LineCountDiagnostics) = 1
       /\ \A i \in LineCountDiagnostics : IsWarning(lengthErrors[i])
  /\ \A i \in DOMAIN lengthErrors :
       IsWarning(lengthErrors[i]) <=>
         \/ IsLineCount(lengthErrors[i]) /\ TotalLines(params) > 300 /\ TotalLines(params) <= 500
         \/ IsWordCount(lengthErrors[i]) /\ WordCount(params) > 5000 /\ WordCount(params) <= 8000
  /\ \A i \in DOMAIN frontmatterErrors : ~IsWarning(frontmatterErrors[i])

\* both rules have run on a document between the two line limits; the length
\* rule warned and the frontmatter rule reported errors
C3_Witness ==
  /\ LengthDone /\ FrontmatterDone
  /\ TotalLines(params) > 300 /\ TotalLines(params) <= 500
  /\ \E i \in LineCountDiagnostics : IsWarning(lengthErrors[i])

\* C4: frontmatter rule, checked document without a frontmatter block: the one
\* diagnostic "Missing frontmatter" and nothing about name or description.
C4_MissingFrontmatterStops ==
  (FrontmatterDone /\ ~HasFrontmatterBlock) =>
     /\ Len(frontmatterErrors) = 1
     /\ frontmatterErrors[1].context = "Missing frontmatter"

\* the frontmatter rule has run on a checked document that has no frontMatterLines
C4_Witness ==
  /\ FrontmatterDone /\ "frontMatterLines" \notin DOMAIN params
  /\ Contexts(frontmatterErrors) = {"Missing frontmatter"}

\* C5: a checked document that satisfies every constraint (name kebab-case, at
\* most 64 characters, no reserved word, no double hyphen, no tag, equal to the
\* directory name; description of 20 to 1024 characters without tag; lines and
\* words under the soft limits) gets no diagnostic from either rule.
C5_WellFormedDocumentNoDiagnostics ==
  (Checked /\ ran = Rules /\ HasFrontmatterBlock /\ IsWellFormed(params)) =>
     (lengthErrors = <<>> /\ frontmatterErrors = <<>>)

\* C6: for a description in block-scalar form the extracted description is all
\* continuation lines up to the next top-level key or the end of the block,
\* joined with single spaces and trimmed; "line one line two" (17 characters)
\* for "description: >\n  line one\n  line two\nname: x".
C6_BlockScalarDescriptionIsJoined ==
  (FrontmatterDone /\ HasFrontmatterBlock /\ HasBlockScalarDescription(FieldLines(params))) =>
     /\ Description(Frontmatter(params)) = FoldedDescription(FieldLines(params))
     /\ Frontmatter(params) = "description: >\n  line one\n  line two\nname: x" =>
          /\ Description(Frontmatter(params)) = "line one line two"
          /\ Len(Description(Frontmatter(params))) = 17

\* C7: when no line of the frontmatter has the form "name: <value>" with a
\* value that is not empty, the name is absent: "Missing name" is reported and
\* no diagnostic about the format of the name.
C7_NoNameLineIsMissingName ==
  (FrontmatterDone /\ HasFrontmatterBlock /\ ~HasNameLine(FieldLines(params))) =>
     /\ "Missing name" \in Contexts(frontmatterErrors)
     /\ Contexts(frontmatterErrors) \cap NameFormatContexts = {}

\* C8: once a name is present each of the six name checks reports its own
\* diagnostic exactly when it fails, whatever the other checks find; the name
\* "ab--cd<x>" gets kebab-case, consecutive-hyphen and XML-tag among a-e.
C8_NameChecksIndependent ==
  (FrontmatterDone /\ NamePresent) =>
     /\ CountContext(frontmatterErrors, "Invalid name format")
          = (IF IsKebabCase(Name(Frontmatter(params))) THEN 0 ELSE 1)
     /\ CountContext(frontmatterErrors, "Name too long")
          = (IF Len(Name(Frontmatter(params))) <= 64 THEN 0 ELSE 1)
     /\ CountContext(frontmatterErrors, "Reserved word in name")
          = (IF HasReservedWord(Name(Frontmatter(params))) THEN 1 ELSE 0)
     /\ CountContext(frontmatterErrors, "Consecutive hyphens")
          = (IF HasConsecutiveHyphens(Name(Frontmatter(params))) THEN 1 ELSE 0)
     /\ CountContext(frontmatterErrors, "XML tag in name")
          = (IF HasXmlTag(Name(Frontmatter(params))) THEN 1 ELSE 0)
     /\ CountContext(frontmatterErrors, "Name/directory mismatch")
          = (IF Name(Frontmatter(params)) = DirName(params) THEN 0 ELSE 1)
     /\ Name(Frontmatter(params)) = "ab--cd<x>" =>
          Contexts(frontmatterErrors) \cap (NameFormatContexts \ {"Name/directory mismatch"})
            = {"Invalid name format", "Consecutive hyphens", "XML tag in name"}

\* the frontmatter rule has run on a document named "ab--cd<x>" and reported three name errors
C8_Witness ==
  /\ FrontmatterDone /\ NamePresent
  /\ Name(Frontmatter(params)) = "ab--cd<x>"
  /\ {"Invalid name format", "Consecutive hyphens", "XML tag in name"} \subseteq Contexts(frontmatterErrors)

\* C9: with a description present: 19 characters give "too short", 20
\* characters give no length diagnostic, at most 1024 characters never give
\* "too long", and the two are never reported together.
C9_DescriptionLengthBoundaries ==
  (FrontmatterDone /\ DescriptionPresent) =>
     /\ Len(Description(Frontmatter(params))) = 19 =>
          "Description too short" \in Contexts(frontmatterErrors)
     /\ Len(Description(Frontmatter(params))) = 20 =>
          Contexts(frontmatterErrors) \cap {"Description too short", "Description too long"} = {}
     /\ Len(Description(Frontmatter(params))) <= 1024 =>
          "Description too long" \notin Contexts(frontmatterErrors)
     /\ ~({"Description too short", "Description too long"} \subseteq Contexts(frontmatterErrors))

\* the frontmatter rule has run on a quoted description of exactly 20 characters
C9_Witness ==
  /\ FrontmatterDone /\ DescriptionPresent
  /\ Len(Description(Frontmatter(params))) = 20
  /\ \E i \in DOMAIN FieldLines(params) : StartsWithAt(FieldLines(params)[i], 1, "description: \"")
  /\ "Description too short" \notin Contexts(frontmatterErrors)

\* C10: a name that has "anthropic" or "claude" as a whole word between its
\* hyphens, in any letter case, gets the reserved-word diagnostic; the name
\* "claude-helper" gets it and no kebab-case diagnostic.
C10_ReservedWordReported ==
  (FrontmatterDone /\ NamePresent) =>
     /\ HasReservedToken(Name(Frontmatter(params))) =>
          "Reserved word in name" \in Contexts(frontmatterErrors)
     /\ Name(Frontmatter(params)) = "claude-helper" =>
          /\ "Reserved word in name" \in Contexts(frontmatterErrors)
          /\ "Invalid name format" \notin Contexts(frontmatterErrors)

\* the frontmatter rule has run on the name "claude-helper" and reported the reserved word
C10_Witness ==
  /\ FrontmatterDone /\ NamePresent
  /\ Name(Frontmatter(params)) = "claude-helper"
  /\ "Reserved word in name" \in Contexts(frontmatterErrors)

====
